---------------------------- MODULE Spec2Model ----------------------------
(***************************************************************************)
(* Model of mySQLdbConnector.Connection: one manager object wrapping one   *)
(* driver connection handle, with the driver (connect, handle, cursor) as  *)
(* a nondeterministic collaborator.  Every public method is one atomic     *)
(* action (the class is single-threaded); the generator returned by iter   *)
(* is the only code that is suspended between calls.                       *)
(***************************************************************************)
EXTENDS Integers, Sequences, FiniteSets, TLC

VARIABLES
    pc,               \* "new" before __init__ ran, "ready" after it returned
    _db,              \* self._db: None or the id of a driver handle
    open,             \* driver side: handles opened by Connect and not yet closed
    nhandles,         \* driver side: number of handles Connect has returned
    _last_use_time,   \* self._last_use_time
    max_idle_time,    \* self.max_idle_time
    now,              \* time.time()
    gen,              \* the generator object of an iter() call
    call,             \* what the last call did: driver trace, outcome
    pure              \* the last application of a function that uses no state

vars == <<pc, _db, open, nhandles, _last_use_time, max_idle_time, now, gen, call, pure>>

-----------------------------------------------------------------------------
(* Bounds *)

MaxHandles == 2
MaxTime == 2
MaxIdle == 1
MaxRows == 3

-----------------------------------------------------------------------------
(* Values *)

None == 0
NoExc == "none"

\* outcomes of MySQLConnector.Connect(**args) followed by the autocommit set
ConnectOutcomes == {"ok", "ConnectError", "AutocommitError"}
\* outcomes of cursor.execute / cursor.executemany
ExecuteOutcomes == {"ok", "OperationalError", "IntegrityError"}
\* outcomes of fetching the next row from the cursor
FetchOutcomes == {"ok", "OperationalError"}
\* values the driver reports as cursor.lastrowid and cursor.rowcount
DriverValues == {0, 1, 42}
\* the pairs (lastrowid, rowcount) a cursor reports: each value in each place
DriverReports == {<<0, 1>>, <<1, 42>>, <<42, 0>>}

Description == <<"id", "n">>
\* the result sets the driver delivers: n distinct rows, n up to MaxRows
ResultSet(n) == [description |-> Description, rows |-> [i \in 1..n |-> <<i, 10 * i>>]]
ResultSets == {ResultSet(n) : n \in 0..MaxRows}

\* what the driver does with one statement: execute fails, or execute succeeds
\* and the fetch fails, or the result set is delivered
StatementRuns ==
    {[eres |-> "ok", rs |-> rs, fres |-> "ok"] : rs \in ResultSets}
    \cup {[eres |-> "ok", rs |-> ResultSet(0), fres |-> f] : f \in FetchOutcomes \ {"ok"}}
    \cup {[eres |-> e, rs |-> ResultSet(0), fres |-> "ok"] : e \in ExecuteOutcomes \ {"ok"}}

\* what the driver does with one data-changing statement: execute fails, or it
\* succeeds and the cursor reports lastrowid and rowcount
StatementReports ==
    {[eres |-> "ok", lastrowid |-> p[1], rowcount |-> p[2]] : p \in DriverReports}
    \cup {[eres |-> e, lastrowid |-> 0, rowcount |-> 0] : e \in ExecuteOutcomes \ {"ok"}}

NoCursor == [h |-> None, closes |-> 0]
NoRet == [k |-> "noreturn"]
\* no result set on the cursor
NoResult == [description |-> <<>>, rows |-> <<>>]
NoGen == [st |-> "none", cur |-> NoCursor, rs |-> NoResult, cols |-> <<>>, rest |-> <<>>,
          out |-> <<>>]

Ev(e, h, r) == [e |-> e, h |-> h, r |-> r]

Min(a, b) == IF a < b THEN a ELSE b

\* Row(zip(column_names, row)): a dict, the last value of a repeated name wins
Row(column_names, row) ==
    LET n == Min(Len(column_names), Len(row))
    IN  [c \in {column_names[i] : i \in 1..n} |->
            row[CHOOSE i \in 1..n : column_names[i] = c
                                    /\ \A j \in 1..n : column_names[j] = c => j <= i]]

-----------------------------------------------------------------------------
(* The running call: the object's fields, the driver's handles, the trace  *)
(* of driver calls made so far, the exception in flight, the cursor held,  *)
(* the result set on the cursor, the rows the cursor has delivered, the    *)
(* (lastrowid, rowcount) the cursor reports and the value returned.        *)

Self == [db |-> _db, open |-> open, nh |-> nhandles, last |-> _last_use_time,
         ev |-> <<>>, exc |-> NoExc, cur |-> NoCursor, rs |-> NoResult, got |-> <<>>,
         rep |-> <<>>, ret |-> NoRet]

Raise(s, e) == [s EXCEPT !.exc = e]
Log(s, e) == [s EXCEPT !.ev = Append(@, e)]

\* F(v), with v evaluated once
Let(v, F(_)) == CHOOSE r \in {F(x) : x \in {v}} : TRUE

\* close that calls the handle's close() and keeps the handle
close_keep(s0) ==
    Let(Log(s0, Ev("close", s0.db, "ok")), LAMBDA c :
        IF c.db # None
        THEN [Log(c, Ev("db.close", c.db, "ok")) EXCEPT !.open = @ \ {c.db}]
        ELSE c)

\* Connection.close
close(s0) ==
    Let(Log(s0, Ev("close", s0.db, "ok")), LAMBDA c :
        IF c.db # None
        THEN [Log(c, Ev("db.close", c.db, "ok")) EXCEPT !.open = @ \ {c.db}, !.db = None]
        ELSE c)

\* MySQLConnector.Connect(**self._db_args) and the autocommit set, from
\* Connection.reconnect
Connect(c, cres) ==
    IF cres = "ConnectError"
    THEN Raise(Log(c, Ev("Connect", None, cres)), cres)
    ELSE Let([Log(c, Ev("Connect", c.nh + 1, "ok")) EXCEPT
                 !.db = c.nh + 1, !.open = @ \cup {c.nh + 1}, !.nh = c.nh + 1],
             LAMBDA d : IF cres = "AutocommitError"
                        THEN Raise(Log(d, Ev("autocommit", d.db, cres)), cres)
                        ELSE Log(d, Ev("autocommit", d.db, "ok")))

\* reconnect that opens the new handle without closing the old one
reconnect_noclose(s0, cres) ==
    Let(Log(s0, Ev("reconnect", s0.db, "ok")), LAMBDA c : Connect(c, cres))

\* reconnect whose close leaves the closed handle in place
reconnect_keep(s0, cres) ==
    Let(close_keep(Log(s0, Ev("reconnect", s0.db, "ok"))), LAMBDA c : Connect(c, cres))

\* Connection.reconnect
reconnect(s0, cres) ==
    Let(close(Log(s0, Ev("reconnect", s0.db, "ok"))), LAMBDA c : Connect(c, cres))

\* the idle test with >= for >
stale_ge(s) == s.db = None \/ now - s.last >= max_idle_time

\* Connection._ensure_connected, its condition
stale(s) == s.db = None \/ now - s.last > max_idle_time

\* _ensure_connected that swallows a failure of reconnect
_ensure_connected_swallow(s0, cres) ==
    Let(s0, LAMBDA s :
        Let(IF stale(s) THEN reconnect(s, cres) ELSE s, LAMBDA r :
            [r EXCEPT !.exc = NoExc, !.last = now]))

\* _ensure_connected that sets the last-use time in a finally clause
_ensure_connected_finally(s0, cres) ==
    Let(s0, LAMBDA s :
        Let(IF stale(s) THEN reconnect(s, cres) ELSE s, LAMBDA r :
            [r EXCEPT !.last = now]))

\* Connection._ensure_connected
_ensure_connected(s0, cres) ==
    Let(s0, LAMBDA s :
        Let(IF stale(s) THEN reconnect(s, cres) ELSE s, LAMBDA r :
            IF r.exc # NoExc THEN r ELSE [r EXCEPT !.last = now]))

\* self._db.cursor() / MySQLCursor(self._db)
NewCursor(s0) ==
    Let(s0, LAMBDA s :
        [Log(s, Ev("cursor", s.db, "ok")) EXCEPT !.cur = [h |-> s.db, closes |-> 0]])

\* cursor.close()
cursor_close(s0) ==
    Let(s0, LAMBDA s :
        [Log(s, Ev("cursor.close", s.cur.h, "ok")) EXCEPT !.cur.closes = @ + 1])

\* _cursor that hands out a cursor without the connection check
_cursor_nocheck(s0, cres) ==
    Let(s0, LAMBDA e : NewCursor(e))

\* Connection._cursor
_cursor(s0, cres) ==
    Let(_ensure_connected(s0, cres), LAMBDA e :
        IF e.exc # NoExc THEN e ELSE NewCursor(e))

\* _execute that re-raises without closing the connection
_execute_noclose(s0, eres) ==
    Let(Log(s0, Ev("execute", s0.cur.h, eres)), LAMBDA x :
        IF eres # "ok" THEN Raise(x, eres) ELSE x)

\* _execute that submits the statement again after an OperationalError
_execute_retry(s0, eres) ==
    Let(Log(s0, Ev("execute", s0.cur.h, eres)), LAMBDA x :
        IF eres = "OperationalError"
        THEN Raise(close(Log(x, Ev("execute", x.cur.h, eres))), eres)
        ELSE IF eres # "ok" THEN Raise(x, eres) ELSE x)

\* _execute that closes the connection on every error of the driver
_execute_closeall(s0, eres) ==
    Let(Log(s0, Ev("execute", s0.cur.h, eres)), LAMBDA x :
        IF eres # "ok" THEN Raise(close(x), eres) ELSE x)

\* Connection._execute
_execute(s0, eres) ==
    Let(Log(s0, Ev("execute", s0.cur.h, eres)), LAMBDA x :
        IF eres = "OperationalError"
        THEN Raise(close(x), eres)
        ELSE IF eres # "ok" THEN Raise(x, eres) ELSE x)

\* [Row(zip(column_names, row)) for row in cursor]
FetchAll(s0, rs, fres) ==
    Let(s0, LAMBDA s :
        IF fres # "ok"
        THEN Raise(Log(s, Ev("fetch", s.cur.h, fres)), fres)
        ELSE Let([i \in 1..Len(rs.rows) |-> Row(rs.description, rs.rows[i])], LAMBDA rows :
                 [Log(s, Ev("fetch", s.cur.h, "ok")) EXCEPT
                     !.rs = rs, !.got = rows, !.ret = [k |-> "list", v |-> rows]]))

\* query that closes the cursor on the normal path only
query_noclose_on_error(s0, cres, eres, rs, fres) ==
    Let(_cursor(s0, cres), LAMBDA c :
        IF c.exc # NoExc THEN c
        ELSE Let(_execute(c, eres), LAMBDA x :
                 IF x.exc # NoExc THEN x
                 ELSE Let(FetchAll(x, rs, fres), LAMBDA f :
                          IF f.exc # NoExc THEN f ELSE cursor_close(f))))

\* Connection.query
query(s0, cres, eres, rs, fres) ==
    Let(_cursor(s0, cres), LAMBDA c :
        IF c.exc # NoExc THEN c
        ELSE Let(_execute(c, eres), LAMBDA x :
                 cursor_close(IF x.exc # NoExc THEN x ELSE FetchAll(x, rs, fres))))

\* Connection.get, the error it raises
MultipleRows == "Exception('Multiple rows returned for Database.get() query')"

\* get that returns the first row of any non-empty result
get_first(s0, cres, eres, rs, fres) ==
    Let(query(s0, cres, eres, rs, fres), LAMBDA q :
        IF q.exc # NoExc THEN q
        ELSE IF Len(q.ret.v) = 0 THEN [q EXCEPT !.ret = [k |-> "None"]]
        ELSE [q EXCEPT !.ret = [k |-> "Row", v |-> q.ret.v[1]]])

\* Connection.get
get(s0, cres, eres, rs, fres) ==
    Let(query(s0, cres, eres, rs, fres), LAMBDA q :
        IF q.exc # NoExc THEN q
        ELSE IF Len(q.ret.v) = 0 THEN [q EXCEPT !.ret = [k |-> "None"]]
        ELSE IF Len(q.ret.v) > 1 THEN Raise([q EXCEPT !.ret = NoRet], MultipleRows)
        ELSE [q EXCEPT !.ret = [k |-> "Row", v |-> q.ret.v[1]]])

\* Connection.execute_lastrowid; insert is a second name of this function
execute_lastrowid(s0, cres, eres, lastrowid, rowcount) ==
    Let(_cursor(s0, cres), LAMBDA c :
        IF c.exc # NoExc THEN c
        ELSE Let(_execute(c, eres), LAMBDA x :
                 cursor_close(IF x.exc # NoExc THEN x
                              ELSE [x EXCEPT !.rep = <<lastrowid, rowcount>>,
                                             !.ret = [k |-> "int", v |-> lastrowid]])))

\* Connection.execute
execute(s0, cres, eres, lastrowid, rowcount) ==
    execute_lastrowid(s0, cres, eres, lastrowid, rowcount)

\* execute_rowcount that returns the lastrowid
execute_rowcount_lastrowid(s0, cres, eres, lastrowid, rowcount) ==
    execute_lastrowid(s0, cres, eres, lastrowid, rowcount)

\* Connection.execute_rowcount; update is a second name of this function
execute_rowcount(s0, cres, eres, lastrowid, rowcount) ==
    Let(_cursor(s0, cres), LAMBDA c :
        IF c.exc # NoExc THEN c
        ELSE Let(_execute(c, eres), LAMBDA x :
                 cursor_close(IF x.exc # NoExc THEN x
                              ELSE [x EXCEPT !.rep = <<lastrowid, rowcount>>,
                                             !.ret = [k |-> "int", v |-> rowcount]])))

\* cursor.executemany(query, parameters), called on the cursor directly
cursor_executemany(s0, eres) ==
    Let(Log(s0, Ev("executemany", s0.cur.h, eres)), LAMBDA x :
        IF eres # "ok" THEN Raise(x, eres) ELSE x)

\* Connection.executemany_lastrowid; insertmany is a second name of this function
executemany_lastrowid(s0, cres, eres, lastrowid, rowcount) ==
    Let(_cursor(s0, cres), LAMBDA c :
        IF c.exc # NoExc THEN c
        ELSE Let(cursor_executemany(c, eres), LAMBDA x :
                 cursor_close(IF x.exc # NoExc THEN x
                              ELSE [x EXCEPT !.rep = <<lastrowid, rowcount>>,
                                             !.ret = [k |-> "int", v |-> lastrowid]])))

\* Connection.executemany
executemany(s0, cres, eres, lastrowid, rowcount) ==
    executemany_lastrowid(s0, cres, eres, lastrowid, rowcount)

\* Connection.executemany_rowcount; updatemany is a second name of this function
executemany_rowcount(s0, cres, eres, lastrowid, rowcount) ==
    Let(_cursor(s0, cres), LAMBDA c :
        IF c.exc # NoExc THEN c
        ELSE Let(cursor_executemany(c, eres), LAMBDA x :
                 cursor_close(IF x.exc # NoExc THEN x
                              ELSE [x EXCEPT !.rep = <<lastrowid, rowcount>>,
                                             !.ret = [k |-> "int", v |-> rowcount]])))

\* __init__ that lets the failure of the first reconnect out
__init__propagate(s0, cres) == reconnect([s0 EXCEPT !.db = None, !.last = now], cres)

\* Connection.__init__, from the assignment of self._db on: the first
\* reconnect, whose failure is logged and not raised
__init__(s0, cres) ==
    Let(reconnect([s0 EXCEPT !.db = None, !.last = now], cres), LAMBDA r :
        IF r.exc # NoExc
        THEN Raise(Log(r, Ev("logging.error", r.db, r.exc)), NoExc)
        ELSE r)

\* Connection.iter up to its first row: the part of the generator body that
\* runs when the generator is first resumed
iter_start(s0, cres, eres) ==
    Let(_ensure_connected(s0, cres), LAMBDA e :
        IF e.exc # NoExc THEN e ELSE _execute(NewCursor(e), eres))

\* one turn of the loop that yields the last row left instead of the next one
iter_fetch_last(s0, cols, rest, fres) ==
    Let(s0, LAMBDA s :
        IF fres # "ok" THEN Raise(Log(s, Ev("fetch", s.cur.h, fres)), fres)
        ELSE IF rest = <<>>
             THEN [Log(s, Ev("fetch", s.cur.h, "end")) EXCEPT !.ret = [k |-> "StopIteration"]]
             ELSE [Log(s, Ev("fetch", s.cur.h, "ok")) EXCEPT
                      !.got = Append(@, Row(cols, rest[Len(rest)])),
                      !.ret = [k |-> "yield", v |-> Row(cols, rest[Len(rest)])]])

\* Connection.iter, one turn of "for row in cursor: yield Row(...)"; rest is
\* what the cursor has not delivered yet, s0.got what it has delivered
iter_fetch(s0, cols, rest, fres) ==
    Let(s0, LAMBDA s :
        IF fres # "ok" THEN Raise(Log(s, Ev("fetch", s.cur.h, fres)), fres)
        ELSE IF rest = <<>>
             THEN [Log(s, Ev("fetch", s.cur.h, "end")) EXCEPT !.ret = [k |-> "StopIteration"]]
             ELSE [Log(s, Ev("fetch", s.cur.h, "ok")) EXCEPT
                      !.got = Append(@, Row(cols, Head(rest))),
                      !.ret = [k |-> "yield", v |-> Row(cols, Head(rest))]])

\* Connection.iter, the finally clause
iter_finally(s0) == cursor_close(s0)

\* GeneratorExit raised at the yield: the finally clause runs with unread rows
\* still on the cursor
iter_exit(s0, rest) ==
    [iter_finally(s0) EXCEPT !.ret = [k |-> "GeneratorExit", unread |-> Len(rest)]]

-----------------------------------------------------------------------------
(* Actions *)

\* the call op is over and leaves s0
Done(op, s0) ==
    \E s \in {s0} :
        /\ _db' = s.db
        /\ open' = s.open
        /\ nhandles' = s.nh
        /\ _last_use_time' = s.last
        /\ call' = [op |-> op, ev |-> s.ev, raised |-> s.exc, cur |-> s.cur,
                    rs |-> s.rs, got |-> s.got, rep |-> s.rep, ret |-> s.ret]

\* the outcomes of the driver's connect; it hands out MaxHandles handles
Connects == IF nhandles < MaxHandles THEN ConnectOutcomes ELSE {"ConnectError"}

\* the outcome of the driver's connect, drawn where the call reaches it
ConnectIfStale == IF stale(Self) THEN Connects ELSE {"ok"}

Construct ==
    /\ pc = "new"
    /\ \E cres \in Connects :
          Done("__init__", __init__(Self, cres))
    /\ pc' = "ready"
    /\ UNCHANGED <<pure, max_idle_time, now, gen>>

Close ==
    /\ pc = "ready"
    /\ Done("close", close(Self))
    /\ UNCHANGED <<pure, pc, max_idle_time, now, gen>>

\* teardown: __del__ runs once nothing refers to the object any more; a live
\* generator's frame still refers to it
Del ==
    /\ pc = "ready"
    /\ gen.st = "none"
    /\ Done("__del__", close(Self))
    /\ pc' = "deleted"
    /\ UNCHANGED <<pure, max_idle_time, now, gen>>

Reconnect ==
    /\ pc = "ready"
    /\ \E cres \in Connects :
          Done("reconnect", reconnect(Self, cres))
    /\ UNCHANGED <<pure, pc, max_idle_time, now, gen>>

Query ==
    /\ pc = "ready"
    /\ \E cres \in ConnectIfStale, d \in StatementRuns :
          Done("query", query(Self, cres, d.eres, d.rs, d.fres))
    /\ UNCHANGED <<pure, pc, max_idle_time, now, gen>>

Get ==
    /\ pc = "ready"
    /\ \E cres \in ConnectIfStale, d \in StatementRuns :
          Done("get", get(Self, cres, d.eres, d.rs, d.fres))
    /\ UNCHANGED <<pure, pc, max_idle_time, now, gen>>

Execute ==
    /\ pc = "ready"
    /\ \E cres \in ConnectIfStale, d \in StatementReports :
          Done("execute", execute(Self, cres, d.eres, d.lastrowid, d.rowcount))
    /\ UNCHANGED <<pure, pc, max_idle_time, now, gen>>

ExecuteLastrowid ==
    /\ pc = "ready"
    /\ \E cres \in ConnectIfStale, d \in StatementReports :
          Done("execute_lastrowid", execute_lastrowid(Self, cres, d.eres, d.lastrowid, d.rowcount))
    /\ UNCHANGED <<pure, pc, max_idle_time, now, gen>>

ExecuteRowcount ==
    /\ pc = "ready"
    /\ \E cres \in ConnectIfStale, d \in StatementReports :
          Done("execute_rowcount", execute_rowcount(Self, cres, d.eres, d.lastrowid, d.rowcount))
    /\ UNCHANGED <<pure, pc, max_idle_time, now, gen>>

Executemany ==
    /\ pc = "ready"
    /\ \E cres \in ConnectIfStale, d \in StatementReports :
          Done("executemany", executemany(Self, cres, d.eres, d.lastrowid, d.rowcount))
    /\ UNCHANGED <<pure, pc, max_idle_time, now, gen>>

ExecutemanyLastrowid ==
    /\ pc = "ready"
    /\ \E cres \in ConnectIfStale, d \in StatementReports :
          Done("executemany_lastrowid", executemany_lastrowid(Self, cres, d.eres, d.lastrowid, d.rowcount))
    /\ UNCHANGED <<pure, pc, max_idle_time, now, gen>>

ExecutemanyRowcount ==
    /\ pc = "ready"
    /\ \E cres \in ConnectIfStale, d \in StatementReports :
          Done("executemany_rowcount", executemany_rowcount(Self, cres, d.eres, d.lastrowid, d.rowcount))
    /\ UNCHANGED <<pure, pc, max_idle_time, now, gen>>

\* iter(...) itself only creates the generator; none of its body runs yet
Iter ==
    /\ pc = "ready"
    /\ gen.st = "none"
    /\ gen' = [NoGen EXCEPT !.st = "created"]
    /\ call' = [op |-> "iter", ev |-> <<>>, raised |-> NoExc, cur |-> NoCursor,
                rs |-> NoResult, got |-> <<>>, rep |-> <<>>, ret |-> [k |-> "generator"]]
    /\ UNCHANGED <<pure, pc, _db, open, nhandles, _last_use_time, max_idle_time, now>>

\* what one resumption of the generator leaves behind: suspended at the yield
\* with the rows still to come, or finished with the finally clause run
GenStep(s, cols, rest, fres) ==
    \E f \in {iter_fetch(s, cols, rest, fres)} :
        IF f.exc = NoExc /\ f.ret.k = "yield"
        THEN /\ gen' = [st |-> "suspended", cur |-> f.cur, rs |-> f.rs, cols |-> cols,
                        rest |-> Tail(rest), out |-> f.got]
             /\ Done("iter.next", f)
        ELSE /\ gen' = NoGen
             /\ Done("iter.next", iter_finally(f))

\* next() on a generator that has not started
IterFirst ==
    /\ gen.st = "created"
    /\ \E cres \in ConnectIfStale, d \in StatementRuns :
          \E x \in {iter_start(Self, cres, d.eres)} :
              IF x.exc # NoExc
              THEN /\ gen' = NoGen
                   /\ Done("iter.next", IF x.cur = NoCursor THEN x ELSE iter_finally(x))
              ELSE GenStep([x EXCEPT !.rs = d.rs], d.rs.description, d.rs.rows, d.fres)
    /\ UNCHANGED <<pure, pc, max_idle_time, now>>

\* the generator's frame: its cursor, the result set on it, the rows delivered
Frame == [Self EXCEPT !.cur = gen.cur, !.rs = gen.rs, !.got = gen.out]

\* next() on a generator suspended at the yield
IterNext ==
    /\ gen.st = "suspended"
    /\ \E fres \in FetchOutcomes :
          GenStep(Frame, gen.cols, gen.rest, fres)
    /\ UNCHANGED <<pure, pc, max_idle_time, now>>

\* the caller abandons the generator: close() on it, or its collection,
\* raises GeneratorExit at the yield, which runs the finally clause
IterAbandon ==
    /\ gen.st \in {"created", "suspended"}
    /\ IF gen.st = "created"
       THEN Done("iter.close", Self)
       ELSE Done("iter.close", iter_exit(Frame, gen.rest))
    /\ gen' = NoGen
    /\ UNCHANGED <<pure, pc, max_idle_time, now>>

Tick ==
    /\ now < MaxTime
    /\ now' = now + 1
    /\ UNCHANGED <<pure, pc, _db, open, nhandles, _last_use_time, max_idle_time, gen, call>>

\* the object as __init__ finds it, with the configuration already parsed
Init ==
    /\ pc = "new"
    /\ _db = None
    /\ open = {}
    /\ nhandles = 0
    /\ now = 0
    /\ _last_use_time = 0
    /\ max_idle_time = MaxIdle
    /\ gen = NoGen
    /\ call = [op |-> "none", ev |-> <<>>, raised |-> NoExc, cur |-> NoCursor,
               rs |-> NoResult, got |-> <<>>, rep |-> <<>>, ret |-> NoRet]
    /\ pure = [f |-> "none"]

Next ==
    \/ Construct
    \/ Close
    \/ Del
    \/ Reconnect
    \/ Query
    \/ Get
    \/ Execute
    \/ ExecuteLastrowid
    \/ ExecuteRowcount
    \/ Executemany
    \/ ExecutemanyLastrowid
    \/ ExecutemanyRowcount
    \/ Iter
    \/ IterFirst
    \/ IterNext
    \/ IterAbandon
    \/ Tick

Spec == Init /\ [][Next]_vars

-----------------------------------------------------------------------------
(* Functions that use no connection state *)

MaxParams == 2
ParamValues == {1, 2}
ParamNames == {"a", "b"}

\* a call's *parameters: a tuple of positional values
Tuples == UNION {[1..n -> ParamValues] : n \in 0..MaxParams}
\* a call's **kwparameters: a dict from names to values
Dicts == UNION {[K -> ParamValues] : K \in SUBSET ParamNames}

PyTuple(v) == [t |-> "tuple", v |-> v]
PyDict(v) == [t |-> "dict", v |-> v]
\* Python's truth value of a container: false exactly when it is empty
Truthy(x) == IF x.t = "dict" THEN DOMAIN x.v # {} ELSE Len(x.v) > 0
\* a or b
Or(a, b) == IF Truthy(a) THEN a ELSE b

\* [mutant] the positional tuple wins: parameters or kwparameters
execute_parameters_positional(parameters, kwparameters) ==
    Or(PyTuple(parameters), PyDict(kwparameters))

\* the second argument _execute hands to cursor.execute
execute_parameters(parameters, kwparameters) ==
    Or(PyDict(kwparameters), PyTuple(parameters))

MaxHostLen == 4
\* a string is the sequence of its characters
HostChars == {"h", "1", "2", ":", "/"}
Hosts == UNION {[1..n -> HostChars] : n \in 0..MaxHostLen}
Digits == {"0", "1", "2", "3", "4", "5", "6", "7", "8", "9"}
DigitValue(c) == CHOOSE d \in 0..9 : <<"0", "1", "2", "3", "4", "5", "6", "7", "8", "9">>[d + 1] = c

\* c in s
In(c, s) == \E i \in DOMAIN s : s[i] = c

\* s.split(sep): the pieces of s between the occurrences of sep
RECURSIVE split(_, _)
split(s, sep) ==
    IF ~In(sep, s) THEN <<s>>
    ELSE LET i == CHOOSE k \in DOMAIN s : s[k] = sep /\ \A j \in 1..(k - 1) : s[j] # sep
         IN  <<SubSeq(s, 1, i - 1)>> \o split(SubSeq(s, i + 1, Len(s)), sep)

\* int(s) of a string of decimal digits
RECURSIVE int(_)
int(s) ==
    IF Len(s) = 0 THEN 0
    ELSE 10 * int(SubSeq(s, 1, Len(s) - 1)) + DigitValue(s[Len(s)])

\* int(s) raises ValueError on a string that is no number
IsNumber(s) == Len(s) > 0 /\ \A i \in DOMAIN s : s[i] \in Digits

\* [mutant] the host:port form is tried before the socket path
host_args_split_first(host) ==
    LET pair == split(host, ":")
    IN  IF Len(pair) = 2
        THEN IF IsNumber(pair[2])
             THEN [exc |-> NoExc, args |-> [host |-> pair[1], port |-> int(pair[2])]]
             ELSE [exc |-> "ValueError", args |-> <<>>]
        ELSE IF In("/", host)
        THEN [exc |-> NoExc, args |-> [unix_socket |-> host]]
        ELSE [exc |-> NoExc, args |-> [host |-> host, port |-> 3306]]

\* the connection arguments __init__ derives from its host argument
host_args(host) ==
    IF In("/", host)
    THEN [exc |-> NoExc, args |-> [unix_socket |-> host]]
    ELSE LET pair == split(host, ":")
         IN  IF Len(pair) = 2
             THEN IF IsNumber(pair[2])
                  THEN [exc |-> NoExc, args |-> [host |-> pair[1], port |-> int(pair[2])]]
                  ELSE [exc |-> "ValueError", args |-> <<>>]
             ELSE [exc |-> NoExc, args |-> [host |-> host, port |-> 3306]]

\* column names a result set can carry, and the rows over them
ColumnNames == {"id", "keys"}
Rows == UNION {[K -> ParamValues] : K \in SUBSET ColumnNames}
AttributeNames == ColumnNames \cup {"n", "get"}
\* the names the dict class itself defines, which every Row inherits
DictAttributes ==
    {"clear", "copy", "fromkeys", "get", "items", "keys", "pop", "popitem",
     "setdefault", "update", "values"}

\* row[name]
Row__getitem__(row, name) ==
    IF name \in DOMAIN row THEN [k |-> "value", v |-> row[name]]
    ELSE [k |-> "KeyError", v |-> name]

\* Row.__getattr__(row, name)
Row__getattr__(row, name) ==
    LET item == Row__getitem__(row, name)
    IN  IF item.k = "KeyError" THEN [k |-> "AttributeError", v |-> name] ELSE item

\* row.name: Python calls __getattr__ only when the normal lookup, which finds
\* the attributes of the class and its bases, has failed
getattr(row, name) ==
    IF name \in DictAttributes THEN [k |-> "method", v |-> name]
    ELSE Row__getattr__(row, name)

mainvars == <<pc, _db, open, nhandles, _last_use_time, max_idle_time, now, gen, call>>

\* one run applies one function to one input
BindParameters ==
    /\ pure.f = "none"
    /\ \E parameters \in Tuples, kwparameters \in Dicts :
          pure' = [f |-> "_execute", in |-> <<parameters, kwparameters>>,
                   out |-> execute_parameters(parameters, kwparameters)]
    /\ UNCHANGED mainvars

ResolveHost ==
    /\ pure.f = "none"
    /\ \E host \in Hosts : pure' = [f |-> "__init__", in |-> host, out |-> host_args(host)]
    /\ UNCHANGED mainvars

RowAttribute ==
    /\ pure.f = "none"
    /\ \E row \in Rows, name \in AttributeNames :
          pure' = [f |-> "Row", in |-> <<row, name>>, out |-> getattr(row, name)]
    /\ UNCHANGED mainvars

NextPure ==
    \/ BindParameters
    \/ ResolveHost
    \/ RowAttribute

SpecPure == Init /\ [][NextPure]_vars

-----------------------------------------------------------------------------
(* Properties *)

Count(c, e) == Cardinality({i \in DOMAIN c.ev : c.ev[i].e = e})
Sent(c) == {i \in DOMAIN c.ev : c.ev[i].e \in {"execute", "executemany"}}
\* the driver raised err from cursor.execute in call c
ExecuteRaised(c, err) == \E i \in DOMAIN c.ev : c.ev[i].e = "execute" /\ c.ev[i].r = err
\* the driver's Connect failed in call c
ConnectFailed(c) == \E i \in DOMAIN c.ev : c.ev[i].e = "Connect" /\ c.ev[i].r = "ConnectError"

\* the names under which a statement goes through _cursor
CursorOps ==
    {"query", "get", "execute", "execute_lastrowid", "execute_rowcount",
     "executemany", "executemany_lastrowid", "executemany_rowcount"}
\* this step is a call that runs _ensure_connected
EnsureStep ==
    /\ now' = now
    /\ call'.op \in CursorOps \/ (call'.op = "iter.next" /\ gen.st = "created")

\* C1: in query, get, iter, execute, execute_lastrowid (= insert) and
\* execute_rowcount (= update), when
\* the driver raises OperationalError from cursor.execute, the call ends with
\* the handle absent, the close() of the handle the cursor was on invoked, and
\* that OperationalError reaching the caller.
C1_OperationalErrorClosesAndReraises ==
    \A i \in DOMAIN call.ev :
        (/\ call.op \in {"query", "get", "iter.next", "execute", "execute_lastrowid",
                         "execute_rowcount"}
         /\ call.ev[i].e = "execute"
         /\ call.ev[i].r = "OperationalError")
        => /\ _db = None
           /\ call.raised = "OperationalError"
           /\ call.ev[i].h \notin open
           /\ \E j \in DOMAIN call.ev :
                 j > i /\ call.ev[j] = Ev("db.close", call.ev[i].h, "ok")

C1_Witness ==
    /\ call.op = "iter.next"
    /\ ExecuteRaised(call, "OperationalError")
    /\ _db = None
    /\ call.raised = "OperationalError"

\* C2: a call of _ensure_connected invokes reconnect once when the handle is
\* absent or now - last-use > max_idle_time, and not at all otherwise.
C2_EnsureConnectedReconnects ==
    [][EnsureStep =>
          Count(call', "reconnect") =
              IF _db = None \/ now - _last_use_time > max_idle_time THEN 1 ELSE 0]_vars

C2_Witness ==
    /\ call.op = "query"
    /\ Count(call, "reconnect") = 1
    /\ \E i \in DOMAIN call.ev : call.ev[i].e = "reconnect" /\ call.ev[i].h # None

\* C3: a cursor obtained by a call has close() invoked exactly once by the
\* time the call is over (return, IntegrityError, OperationalError); the
\* cursor of a generator is open while the generator is suspended and is
\* closed exactly once when it is exhausted, fails or is abandoned.
C3_CursorClosedExactlyOnce ==
    /\ Count(call, "cursor") <= 1
    /\ (call.cur # NoCursor /\ ~(call.op = "iter.next" /\ call.ret.k = "yield"))
          => call.cur.closes = 1 /\ Count(call, "cursor.close") = 1
    /\ (call.op = "iter.next" /\ call.ret.k = "yield")
          => call.cur.closes = 0 /\ Count(call, "cursor.close") = 0
    /\ gen.st = "suspended" => gen.cur # NoCursor /\ gen.cur.closes = 0
    /\ gen.st # "suspended" => gen.cur = NoCursor

C3_Witness ==
    /\ call.op = "iter.close"
    /\ call.ret.k = "GeneratorExit"
    /\ call.ret.unread >= 1
    /\ call.cur.closes = 1

\* C4: when the driver's connect fails in __init__, __init__ returns
\* normally with the handle absent, and a statement call made with the handle
\* absent calls the driver's Connect before it sends its statement.
C4_ConstructionFailureIsRetried ==
    /\ []((call.op = "__init__" /\ ConnectFailed(call))
             => call.raised = NoExc /\ _db = None /\ pc = "ready")
    /\ [][(pc = "ready" /\ _db = None /\ EnsureStep)
             => \E i \in DOMAIN call'.ev :
                   /\ call'.ev[i].e = "Connect"
                   /\ \A j \in Sent(call') : i < j]_vars

C4_Witness ==
    /\ call.op = "query"
    /\ nhandles = 1
    /\ \E i \in DOMAIN call.ev : call.ev[i] = Ev("Connect", 1, "ok")
    /\ Sent(call) # {}

\* C5: outside __init__, a failure of the driver's Connect reaches the
\* caller and the call sends no statement.
C5_ConnectFailurePropagates ==
    (call.op # "__init__" /\ ConnectFailed(call))
        => call.raised = "ConnectError" /\ Sent(call) = {}

C5_Witness ==
    /\ call.op = "execute_rowcount"
    /\ ConnectFailed(call)
    /\ call.raised = "ConnectError"

\* C6: a call sends its statement to the driver at most once, and after the
\* statement was sent the call neither reconnects nor connects.
C6_NoRetry ==
    /\ Cardinality(Sent(call)) <= 1
    /\ \A i \in Sent(call) : \A j \in DOMAIN call.ev :
          j > i => call.ev[j].e \notin {"reconnect", "Connect", "execute", "executemany"}

C6_Witness ==
    /\ call.op = "execute"
    /\ ExecuteRaised(call, "OperationalError")
    /\ Cardinality(Sent(call)) = 1

\* C7: in executemany, executemany_lastrowid (= insertmany) and
\* executemany_rowcount (= updatemany), when
\* the driver raises OperationalError from the batch execute, the call ends
\* with the handle absent and that OperationalError reaching the caller.
C7_BatchOperationalErrorCloses ==
    \A i \in DOMAIN call.ev :
        (/\ call.op \in {"executemany", "executemany_lastrowid", "executemany_rowcount"}
         /\ call.ev[i].e = "executemany"
         /\ call.ev[i].r = "OperationalError")
        => _db = None /\ call.raised = "OperationalError"

\* C8: after close() the handle is absent and the handle's close() was
\* invoked at most once; a close() (or the teardown) that follows a close()
\* invokes the handle's close() zero times, raises nothing and changes nothing.
C8_CloseIdempotent ==
    /\ [](call.op \in {"close", "__del__"}
             => _db = None /\ call.raised = NoExc /\ Count(call, "db.close") <= 1)
    /\ [][(call.op = "close" /\ call'.op \in {"close", "__del__"} /\ now' = now)
             => /\ Count(call', "db.close") = 0
                /\ call'.raised = NoExc
                /\ UNCHANGED <<_db, open, nhandles, _last_use_time, max_idle_time, gen>>]_vars

C8_Witness ==
    /\ call.op = "close"
    /\ nhandles >= 1
    /\ call.ev = <<Ev("close", None, "ok")>>
    /\ call.raised = NoExc

\* C9: at most one handle opened by the manager is open, and it is the one
\* the manager holds; within a call, reconnect has the previous handle's
\* close() invoked before the driver's Connect is called.
C9_AtMostOneOpenHandle ==
    /\ Cardinality(open) <= 1
    /\ open \subseteq {_db}
    /\ \A i \in DOMAIN call.ev :
          (call.ev[i].e = "reconnect" /\ call.ev[i].h # None)
          => \E j \in DOMAIN call.ev :
                /\ j > i
                /\ call.ev[j] = Ev("db.close", call.ev[i].h, "ok")
                /\ \A k \in DOMAIN call.ev : (k > i /\ call.ev[k].e = "Connect") => k > j

C9_Witness ==
    /\ nhandles = 2
    /\ _db = 2
    /\ open = {2}
    /\ \E i \in DOMAIN call.ev : call.ev[i] = Ev("reconnect", 1, "ok")

C11_OtherErrorsLeaveHandle ==
    /\ [](\A i \in Sent(call) :
             call.ev[i].r = "IntegrityError"
             => /\ call.raised = "IntegrityError"
                /\ call.cur.closes = 1
                /\ _db = call.ev[i].h
                /\ _db \in open
                /\ \A j \in DOMAIN call.ev : j > i => call.ev[j].e # "db.close")
    /\ [][((\E i \in Sent(call) : call.ev[i].r = "IntegrityError")
           /\ EnsureStep
           /\ now - _last_use_time <= max_idle_time)
             => Count(call', "reconnect") = 0]_vars

C11_Witness ==
    /\ call.op = "execute_lastrowid"
    /\ \E i \in Sent(call) : call.ev[i].r = "IntegrityError"
    /\ call.raised = "IntegrityError"
    /\ _db # None

\* the events of a call before it obtains its cursor
BeforeCursor(ev) ==
    SubSeq(ev, 1, Cardinality({i \in DOMAIN ev : \A j \in 1..i : ev[j].e # "cursor"}))

\* C12: a generator of iter that is consumed to its end has yielded the rows
\* query returns for the same result set, in the same order and with the same
\* mapping in each row; and from any state, iter and query make the same
\* connection check before the statement is executed.
C12_IterYieldsWhatQueryReturns ==
    /\ (call.op = "iter.next" /\ call.raised = NoExc /\ call.ret.k = "StopIteration")
          => call.got = FetchAll(Self, call.rs, "ok").ret.v
    /\ pc = "ready" =>
          \A cres \in ConnectOutcomes, eres \in ExecuteOutcomes :
              \E a \in {iter_start(Self, cres, eres)},
                 b \in {query(Self, cres, eres, ResultSet(1), "ok")} :
                  /\ BeforeCursor(a.ev) = BeforeCursor(b.ev)
                  /\ a.last = b.last
                  /\ a.db = b.db
                  /\ a.exc = b.exc

C12_Witness ==
    /\ call.op = "iter.next"
    /\ call.ret.k = "StopIteration"
    /\ Len(call.got) = 3
    /\ call.got[3] = [id |-> 3, n |-> 30]

\* C13: execute, execute_lastrowid (= insert), executemany and
\* executemany_lastrowid (= insertmany) return the lastrowid the cursor
\* reports, execute_rowcount (= update) and executemany_rowcount
\* (= updatemany) the rowcount it reports, unchanged, for the values 0, 1, 42.
C13_ReturnsDriverValue ==
    (call.raised = NoExc /\ Sent(call) # {})
    => /\ call.op \in {"execute", "execute_lastrowid", "executemany", "executemany_lastrowid"}
             => /\ call.rep[1] \in DriverValues
                /\ call.ret = [k |-> "int", v |-> call.rep[1]]
       /\ call.op \in {"execute_rowcount", "executemany_rowcount"}
             => /\ call.rep[2] \in DriverValues
                /\ call.ret = [k |-> "int", v |-> call.rep[2]]

C13_Witness ==
    /\ call.op = "execute_rowcount"
    /\ call.raised = NoExc
    /\ call.rep = <<1, 42>>
    /\ call.ret = [k |-> "int", v |-> 42]

\* C14: whenever a call supplies at least one named parameter the named
\* parameters alone are bound, whatever positional parameters came with them;
\* the positional parameters are bound only when no named one was supplied.
C14_NamedParametersWin ==
    pure.f = "_execute" =>
        /\ DOMAIN pure.in[2] # {} => pure.out = [t |-> "dict", v |-> pure.in[2]]
        /\ DOMAIN pure.in[2] = {} => pure.out = [t |-> "tuple", v |-> pure.in[1]]

C14_Witness ==
    /\ pure.f = "_execute"
    /\ pure.in = <<(<<1, 2>>), [n \in {"a"} |-> 2]>>
    /\ pure.out = [t |-> "dict", v |-> [n \in {"a"} |-> 2]]

\* the decimal value of a digit string, read from the left
RECURSIVE Decimal(_, _)
Decimal(s, acc) == IF s = <<>> THEN acc ELSE Decimal(Tail(s), 10 * acc + DigitValue(Head(s)))
\* host is h ":" p with no further ":"
HostPort(host, h, p) == host = h \o <<":">> \o p /\ ~In(":", h) /\ ~In(":", p)

\* C15: a host containing "/" becomes the unix-socket argument and no host or
\* port is set; a host without "/" of the form h:p gives host h and port
\* int(p); a host without "/" and without ":" gives that host and port 3306.
C15_HostResolution ==
    pure.f = "__init__" =>
        /\ In("/", pure.in) =>
              /\ pure.out.exc = NoExc
              /\ DOMAIN pure.out.args = {"unix_socket"}
              /\ pure.out.args.unix_socket = pure.in
        /\ ~In("/", pure.in) =>
              /\ \A i \in DOMAIN pure.in :
                    \E h \in {SubSeq(pure.in, 1, i - 1)}, p \in {SubSeq(pure.in, i + 1, Len(pure.in))} :
                    HostPort(pure.in, h, p) =>
                       IF IsNumber(p)
                       THEN /\ pure.out.exc = NoExc
                            /\ DOMAIN pure.out.args = {"host", "port"}
                            /\ pure.out.args.host = h
                            /\ pure.out.args.port = Decimal(p, 0)
                       ELSE pure.out.exc = "ValueError"
              /\ ~In(":", pure.in) =>
                    /\ pure.out.exc = NoExc
                    /\ DOMAIN pure.out.args = {"host", "port"}
                    /\ pure.out.args.host = pure.in
                    /\ pure.out.args.port = 3306

C15_Witness ==
    /\ pure.f = "__init__"
    /\ pure.in = <<"h", ":", "1", "2">>
    /\ pure.out.exc = NoExc
    /\ pure.out.args = [host |-> <<"h">>, port |-> 12]

\* C16: for every column of a row, attribute access gives the value keyed
\* access gives; attribute access to a name that is no column raises the
\* attribute error.
C16_AttributeAccessIsKeyedAccess ==
    pure.f = "Row" =>
        IF pure.in[2] \in DOMAIN pure.in[1]
        THEN pure.out = [k |-> "value", v |-> pure.in[1][pure.in[2]]]
        ELSE pure.out = [k |-> "AttributeError", v |-> pure.in[2]]

\* C17: a statement goes to the driver only through a handle that is not
\* absent, and only after _ensure_connected has completed in the same call:
\* the statement is sent in a call that runs the check, through an open handle
\* on which the call obtained its cursor, with the last-use time refreshed;
\* when the handle was absent or idle past max_idle_time at the start of the
\* call, the statement goes through a handle the call connected, never
\* through the one held at the start.
C17_StatementsOnlyWhenConnected ==
    /\ [](\A i \in Sent(call) :
             /\ call.op \in CursorOps \cup {"iter.next"}
             /\ call.ev[i].h # None
             /\ \E j \in 1..(i - 1) : call.ev[j] = Ev("cursor", call.ev[i].h, "ok")
             /\ \A j \in 1..(i - 1) : call.ev[j] # Ev("db.close", call.ev[i].h, "ok"))
    /\ [][EnsureStep =>
             \A i \in Sent(call') :
                /\ _last_use_time' = now
                /\ IF _db = None \/ now - _last_use_time > max_idle_time
                   THEN /\ call'.ev[i].h # _db
                        /\ \E j \in 1..(i - 1) : call'.ev[j] = Ev("Connect", call'.ev[i].h, "ok")
                   ELSE call'.ev[i].h = _db]_vars

C17_Witness ==
    /\ call.op = "executemany_rowcount"
    /\ call.raised = NoExc
    /\ \E i \in Sent(call) :
          /\ call.ev[i].h = 2
          /\ \E j \in 1..(i - 1) : call.ev[j] = Ev("reconnect", 1, "ok")

\* C18: while a generator of iter is suspended between two rows (its
\* statement has executed, it is neither exhausted nor abandoned), the
\* manager's handle is not absent and is the handle the generator's cursor
\* was opened on, whatever other calls were made on the manager meanwhile.
C18_HandleHeldWhileIterating ==
    gen.st = "suspended" => _db # None /\ _db = gen.cur.h

\* reconnect raised in call c: the driver's Connect or the autocommit set failed
ReconnectFailed(c) ==
    \E i \in DOMAIN c.ev :
        \/ c.ev[i].e = "Connect" /\ c.ev[i].r = "ConnectError"
        \/ c.ev[i].e = "autocommit" /\ c.ev[i].r = "AutocommitError"

\* C19 as stated: _ensure_connected sets the last-use time to the current
\* time on every exit, also when reconnect failed and its error propagates.
C19_LastUseSetOnEveryExit ==
    [][EnsureStep => _last_use_time' = now]_vars

\* C19: _ensure_connected sets the last-use time to the current time on every
\* normal exit, that is when no reconnect was needed and when reconnect
\* succeeded; when reconnect fails its error propagates and the last-use time
\* is left as it was.
C19_LastUseSetOnNormalExit ==
    [][EnsureStep =>
          /\ ReconnectFailed(call') <=> call'.raised \in {"ConnectError", "AutocommitError"}
          /\ _last_use_time' = IF ReconnectFailed(call') THEN _last_use_time ELSE now]_vars

C19_Witness ==
    /\ call.op = "query"
    /\ ReconnectFailed(call)
    /\ call.raised = "ConnectError"
    /\ _last_use_time < now

\* C20: when the driver's Connect fails inside reconnect, the handle held
\* before (if any) has had close() invoked before the Connect and the manager
\* holds no handle afterwards; so a later call through _ensure_connected
\* attempts a driver Connect, and the handle the manager holds is never one
\* on which close() was invoked.
C20_FailedReconnectLeavesNoHandle ==
    /\ [](/\ \A i \in DOMAIN call.ev :
                (call.ev[i].e = "Connect" /\ call.ev[i].r = "ConnectError")
                => /\ _db = None
                   /\ \A k \in 1..(i - 1) :
                         (call.ev[k].e = "reconnect" /\ call.ev[k].h # None)
                         => /\ call.ev[k].h \notin open
                            /\ \E j \in (k + 1)..(i - 1) :
                                  call.ev[j] = Ev("db.close", call.ev[k].h, "ok")
          /\ _db # None => _db \in open)
    /\ [][(_db = None /\ EnsureStep) => Count(call', "Connect") = 1]_vars

C20_Witness ==
    /\ call.op = "execute_rowcount"
    /\ call.raised = "ConnectError"
    /\ _db = None
    /\ nhandles = 1
    /\ \E i \in DOMAIN call.ev : call.ev[i] = Ev("db.close", 1, "ok")

=============================================================================
